---- MODULE Spec2Model ----
(***************************************************************************)
(* Model of the Letter Boxed solver (letterboxed.py): the word trie built  *)
(* by LetterBoxedSolver.add, the single-word constrained search            *)
(* LetterNode.search and the chain search loop LetterBoxedSolver.search.   *)
(*                                                                         *)
(* A letter is a one-character string, a word is a sequence of letters.    *)
(* A trie node is the record of its fields; nodes maps a letter to the     *)
(* child node, so word_graph holds the whole trie.                         *)
(***************************************************************************)
EXTENDS Integers, Sequences, FiniteSets, TLC

VARIABLES
  wordlist,           \* the wordlist argument of __init__
  word_graph,         \* LetterBoxedSolver.word_graph: the root LetterNode
  max_chain,          \* LetterBoxedSolver.max_chain
  added,              \* history: the set of words passed to add so far
  nadds,              \* history: the number of add calls so far
  pc,                 \* "new", "ready", "loop", "done", "raised" or "probed"
  error,              \* the exception that left search, or "none"
  puzzle,             \* the puzzle argument of the running call
  current_words,      \* locals of the last pass of the loop (lines 122-131)
  current_edge,
  node,
  results,
  current_list,       \* the entry the next pass of the loop works on
  in_progress_lists,  \* the frontier
  complete_list,      \* the recorded solutions, each with its last edge
  puzzle_solutions,   \* the keys of the recorded solutions
  ret                 \* what search returned

vars == <<wordlist, word_graph, max_chain, added, nadds, pc, error, puzzle,
          current_words, current_edge, node, results, current_list, in_progress_lists, complete_list, puzzle_solutions,
          ret>>

(* ---------------- bounds and input sets ---------------- *)

\* number of add calls made before a search
MaxAdds == 3

\* longest wordlist handed to the constructor
MaxListLen == 2

\* number of add calls made before a direct call of LetterNode.search
MaxProbeAdds == 2

\* largest configured chain bound tried
MaxChainBound == 2

\* max_chain = -1 means "no bound"
Unbounded == -1

\* Python's None (no current edge, absent child)
None == <<>>

IsNone(x) == x = None

Range(s) == {s[i] : i \in 1..Len(s)}

\* the words offered to add; the empty word is what a blank row loads as
WordPool ==
  { <<>>,
    <<"a">>,
    <<"a","d">>,
    <<"a","b","c">>,
    <<"a","d","g">>,
    <<"g","j","a">>,
    <<"g","j","b","e","h">>,
    <<"a","d","g","j","b","e","h">>,
    <<"h","k","c","f","i","a">>,
    <<"h","k","c","f","i","l","a">>,
    <<"a","d","g","j","b","e","h","k","c","f","i">>,
    <<"a","d","g","j","b","e","h","k","c","f","i","l">>,
    <<"a","d","g","j","b","e","h","k","c","f","i","a">>,
    <<"b","e","h","k","c","f","i","a","d","g","j">> }

\* the puzzles offered to search: twelve distinct letters; the letter a on
\* two edges; the letter j twice on one edge
Puzzles ==
  { << <<"a","b","c">>, <<"d","e","f">>, <<"g","h","i">>, <<"j","k","l">> >>,
    << <<"a","b","c">>, <<"d","e","f">>, <<"g","h","i">>, <<"j","k","a">> >>,
    << <<"a","b","c">>, <<"d","e","f">>, <<"g","h","i">>, <<"j","j","k">> >> }

MaxChainValues == {Unbounded} \cup (0..MaxChainBound)

(* ---------------- LetterNode ---------------- *)

\* LetterNode.__init__: letter is a string of length 0 (the root) or 1,
\* nodes starts as the empty dict
LetterNode(letter, terminal) ==
  [letter |-> letter, terminal |-> terminal, nodes |-> <<>>]

\* LetterNode.word
word(n) == Cardinality(DOMAIN n.nodes) = 0 \/ n.terminal

\* LetterNode.get with a str argument
get(n, letter) == IF letter \in DOMAIN n.nodes THEN n.nodes[letter] ELSE None

\* LetterNode.add: self.nodes[node.letter] = node
NodeAdd(n, child) ==
  [n EXCEPT !.nodes = [l \in DOMAIN n.nodes \cup {child.letter[1]} |->
                         IF l = child.letter[1] THEN child ELSE n.nodes[l]]]

(* ---------------- LetterBoxedSolver.add ---------------- *)

SetTerminalNoMark(n) == n

\* current_node.terminal = True
SetTerminal(n) == [n EXCEPT !.terminal = TRUE]

RECURSIVE AddFrom(_, _)
\* the for loop of add from current_node over the remaining letters, then
\* the terminal mark; yields current_node as the calls leave it (the code
\* updates the nodes in place)
AddFrom(current_node, letters) ==
  IF letters = <<>> THEN SetTerminal(current_node)
  ELSE LET letter == Head(letters)
           found  == get(current_node, letter)
           n      == IF IsNone(found) THEN LetterNode(<<letter>>, FALSE)
                     ELSE found
       IN NodeAdd(current_node, AddFrom(n, Tail(letters)))

\* add(word) on the trie rooted at g
AddWord(g, w) == AddFrom(g, w)

(* ---------------- state machine ---------------- *)

\* self.word_graph = LetterNode("")
EmptyGraph == LetterNode(<<>>, FALSE)

\* wordlist: Optional[List] = None
NoWordList == [given |-> FALSE, words |-> <<>>]

\* LetterBoxedSolver() with no wordlist, constructed
Init ==
  /\ wordlist = NoWordList
  /\ word_graph = EmptyGraph
  /\ max_chain \in MaxChainValues
  /\ added = {}
  /\ nadds = 0
  /\ pc = "ready"
  /\ error = "none"
  /\ puzzle = None
  /\ current_words = <<>>
  /\ current_edge = None
  /\ node = None
  /\ results = <<>>
  /\ current_list = <<<<>>, None>>
  /\ in_progress_lists = <<>>
  /\ complete_list = <<>>
  /\ puzzle_solutions = {}
  /\ ret = <<>>

\* solver.add(w); added and nadds record the calls made
Add(w) ==
  /\ pc = "ready"
  /\ word_graph' = AddWord(word_graph, w)
  /\ added' = added \cup {w}
  /\ nadds' = nadds + 1
  /\ UNCHANGED <<wordlist, max_chain, pc, error, puzzle, current_words, current_edge,
                 node, results, current_list,
                 in_progress_lists, complete_list, puzzle_solutions, ret>>

(* ---------------- LetterNode.search ---------------- *)

RECURSIVE Concat(_)
\* flattens a sequence of sequences
Concat(ss) == IF ss = <<>> THEN <<>> ELSE Head(ss) \o Concat(Tail(ss))

NextEdgesAll(p, cur_edge) == p

\* next_edges: the edges a letter may be taken from
NextEdges(p, cur_edge) ==
  IF cur_edge # None THEN SelectSeq(p, LAMBDA edge : edge # cur_edge)
  ELSE p

RECURSIVE NodeSearch(_, _, _)
\* LetterNode.search(self = n, puzzle = p, cur_edge): a list of
\* (word, last_edge) pairs
NodeSearch(n, p, cur_edge) ==
  LET own == IF word(n) THEN << <<n.letter, cur_edge>> >> ELSE <<>>
      next_edges == NextEdges(p, cur_edge)
      \* the results appended for one letter of one edge
      ForLetter(edge, letter) ==
        LET current_node == get(n, letter)
        IN IF IsNone(current_node) THEN <<>>
           ELSE LET sub == NodeSearch(current_node, p, edge)
                IN [k \in 1..Len(sub) |-> <<n.letter \o sub[k][1], sub[k][2]>>]
      ForEdge(edge) == Concat([j \in 1..Len(edge) |-> ForLetter(edge, edge[j])])
  IN own \o Concat([i \in 1..Len(next_edges) |-> ForEdge(next_edges[i])])

(* ---------------- LetterBoxedSolver.search ---------------- *)

AllUsedFirstEdge(p, words) ==
  \A j \in 1..Len(p[1]) : \E w \in 1..Len(words) : p[1][j] \in Range(words[w])

\* are_all_letters_used: used[edge][letter] is set for every letter of
\* every word that lies on the edge; true when no entry stays False
are_all_letters_used(p, words) ==
  LET used == [edge \in Range(p) |->
                 [letter \in Range(edge) |->
                    \E w \in 1..Len(words) : letter \in Range(words[w])]]
  IN \A edge \in DOMAIN used : \A letter \in DOMAIN used[edge] :
       used[edge][letter]

RECURSIVE Join(_, _)
\* sep.join(words)
Join(sep, words) ==
  IF words = <<>> THEN <<>>
  ELSE IF Len(words) = 1 THEN words[1]
  ELSE words[1] \o <<sep>> \o Join(sep, Tail(words))

NeverRepeat(w, cur_words) == FALSE

\* word in cur_words
IsRepeat(w, cur_words) == w \in Range(cur_words)

AlwaysNew(smashed_words, sols) == TRUE

\* smashed_words not in puzzle_solutions
IsNew(smashed_words, sols) == smashed_words \notin sols

MayExtendOffByOne(word_list, mc) ==
  IF mc > Unbounded THEN Len(word_list) <= mc ELSE TRUE

\* the max_chain test that guards in_progress_lists.append(leaf)
MayExtend(word_list, mc) ==
  IF mc > Unbounded THEN Len(word_list) < mc ELSE TRUE

\* ForResult with the frontier append taken out of the else branch
ForResultExtendsAll(st, cur_words, result, p, mc) ==
  LET w == result[1]
      edge == result[2]
      word_list == Append(cur_words, w)
      leaf == <<word_list, edge>>
      smashed_words == Join("_", word_list)
      rec == IF are_all_letters_used(p, word_list)
                  /\ IsNew(smashed_words, st.puzzle_solutions)
             THEN [st EXCEPT !.complete_list = Append(@, leaf),
                             !.puzzle_solutions = @ \cup {smashed_words}]
             ELSE st
  IN IF IsRepeat(w, cur_words) THEN st
     ELSE IF MayExtend(word_list, mc)
          THEN [rec EXCEPT !.in_progress_lists = Append(@, leaf)]
          ELSE rec

\* body of "for result in results" on the loop's lists
\* st = [complete_list, in_progress_lists, puzzle_solutions]
ForResult(st, cur_words, result, p, mc) ==
  LET w == result[1]
      edge == result[2]
      word_list == Append(cur_words, w)
      leaf == <<word_list, edge>>
      smashed_words == Join("_", word_list)
  IN IF IsRepeat(w, cur_words) THEN st
     ELSE IF are_all_letters_used(p, word_list)
          THEN IF IsNew(smashed_words, st.puzzle_solutions)
               THEN [st EXCEPT !.complete_list = Append(@, leaf),
                               !.puzzle_solutions = @ \cup {smashed_words}]
               ELSE st
          ELSE IF MayExtend(word_list, mc)
               THEN [st EXCEPT !.in_progress_lists = Append(@, leaf)]
               ELSE st

RECURSIVE ForResults(_, _, _, _, _)
ForResults(st, cur_words, rs, p, mc) ==
  IF rs = <<>> THEN st
  ELSE ForResults(ForResult(st, cur_words, Head(rs), p, mc),
                  cur_words, Tail(rs), p, mc)

TotalLetters(x) == Len(Concat(x))

SortKeyWordsOnly(x) == <<Len(x), 0>>

\* key=lambda x: (len(x), sum([len(word) for word in x]))
SortKey(x) == <<Len(x), TotalLetters(x)>>

\* tuple comparison a <= b
KeyLeq(a, b) == a[1] < b[1] \/ (a[1] = b[1] /\ a[2] <= b[2])

RECURSIVE InsertSorted(_, _)
\* places x after every element whose key is not greater
InsertSorted(sorted, x) ==
  IF sorted = <<>> THEN <<x>>
  ELSE LET last == sorted[Len(sorted)]
       IN IF KeyLeq(SortKey(last), SortKey(x)) THEN Append(sorted, x)
          ELSE Append(InsertSorted(SubSeq(sorted, 1, Len(sorted) - 1), x), last)

RECURSIVE SortFrom(_, _)
SortFrom(sorted, rest) ==
  IF rest = <<>> THEN sorted
  ELSE SortFrom(InsertSorted(sorted, Head(rest)), Tail(rest))

\* list.sort(key=...): stable, ascending
Sort(list) == SortFrom(<<>>, list)

\* lines 180-186: strip the edges, sort, return
Finish(complete) == Sort([i \in 1..Len(complete) |-> complete[i][1]])

\* search(puzzle): lines 115-119, the locals before the loop
StartSearch(p) ==
  /\ pc = "ready"
  /\ puzzle' = p
  /\ complete_list' = <<>>
  /\ in_progress_lists' = <<>>
  /\ current_list' = <<<<>>, None>>
  /\ puzzle_solutions' = {}
  /\ pc' = "loop"
  /\ UNCHANGED <<wordlist, word_graph, max_chain, added, nadds, error, current_words,
                 current_edge, node, results, ret>>

\* lines 122-129: how the lookup of the start node ends.
\* current_words[-1][-1] on an empty last word is an IndexError
Lookup(g, cur_words) ==
  IF Len(cur_words) = 0 THEN [exc |-> "none", node |-> g]
  ELSE LET last == cur_words[Len(cur_words)]
       IN IF Len(last) = 0 THEN [exc |-> "IndexError", node |-> None]
          ELSE [exc |-> "none", node |-> get(g, last[Len(last)])]

\* line 131: node.search on an absent node is an AttributeError
Outcome(g, cur_words) ==
  LET l == Lookup(g, cur_words)
  IN IF l.exc # "none" THEN l.exc
     ELSE IF Len(cur_words) # 0 /\ IsNone(l.node) THEN "AttributeError"
     ELSE "none"

\* one pass of "while True" that ends in an exception leaving search
IterateRaise ==
  /\ pc = "loop"
  /\ Outcome(word_graph, current_list[1]) # "none"
  /\ error' = Outcome(word_graph, current_list[1])
  /\ pc' = "raised"
  /\ current_words' = current_list[1]
  /\ current_edge' = current_list[2]
  /\ node' = IF Lookup(word_graph, current_list[1]).exc = "none" THEN None
             ELSE node
  /\ UNCHANGED <<wordlist, word_graph, max_chain, added, nadds, puzzle, results,
                 current_list, in_progress_lists, complete_list,
                 puzzle_solutions, ret>>

\* one pass of "while True" that runs to its end; when the frontier is
\* empty the loop breaks and search sorts and returns
Iterate ==
  /\ pc = "loop"
  /\ Outcome(word_graph, current_list[1]) = "none"
  /\ \E n \in {Lookup(word_graph, current_list[1]).node} :
     \E rs \in {NodeSearch(n, puzzle, current_list[2])} :
     \E st \in {ForResults([complete_list |-> complete_list,
                            in_progress_lists |-> in_progress_lists,
                            puzzle_solutions |-> puzzle_solutions],
                           current_list[1], rs, puzzle, max_chain)} :
        /\ current_words' = current_list[1]
        /\ current_edge' = current_list[2]
        /\ node' = n
        /\ results' = rs
        /\ complete_list' = st.complete_list
        /\ puzzle_solutions' = st.puzzle_solutions
        /\ IF Len(st.in_progress_lists) = 0
           THEN /\ in_progress_lists' = st.in_progress_lists
                /\ current_list' = current_list
                /\ ret' = Finish(st.complete_list)
                /\ pc' = "done"
           ELSE /\ current_list' = Head(st.in_progress_lists)
                /\ in_progress_lists' = Tail(st.in_progress_lists)
                /\ ret' = ret
                /\ pc' = "loop"
  /\ UNCHANGED <<wordlist, word_graph, max_chain, added, nadds, error, puzzle>>

Next ==
  \/ \E w \in WordPool : nadds < MaxAdds /\ Add(w)
  \/ \E p \in Puzzles : StartSearch(p)
  \/ Iterate
  \/ IterateRaise

Spec == Init /\ [][Next]_vars

(* ---------------- LetterBoxedSolver.__init__ with a wordlist ---------- *)

\* the methods that class LetterBoxedSolver defines
Methods == {"__init__", "add", "are_all_letters_used", "search", "LoadFromFile"}

RECURSIVE LoadWords(_, _)
\* lines 44-45: self.add_word(word) for each word; the lookup of a method
\* the class lacks is an AttributeError
LoadWords(g, ws) ==
  IF ws = <<>> THEN [exc |-> "none", graph |-> g]
  ELSE IF "add_word" \notin Methods
       THEN [exc |-> "AttributeError", graph |-> g]
       ELSE LoadWords(AddWord(g, Head(ws)), Tail(ws))

\* the wordlist arguments tried
WordLists ==
  {NoWordList} \cup
    {[given |-> TRUE, words |-> ws] :
       ws \in UNION {[1..k -> WordPool] : k \in 0..MaxListLen}}

\* LetterBoxedSolver(wordlist, max_chain) called, __init__ not yet run
InitCtor ==
  /\ wordlist \in WordLists
  /\ word_graph = EmptyGraph
  /\ max_chain \in MaxChainValues
  /\ added = {}
  /\ nadds = 0
  /\ pc = "new"
  /\ error = "none"
  /\ puzzle = None
  /\ current_words = <<>>
  /\ current_edge = None
  /\ node = None
  /\ results = <<>>
  /\ current_list = <<<<>>, None>>
  /\ in_progress_lists = <<>>
  /\ complete_list = <<>>
  /\ puzzle_solutions = {}
  /\ ret = <<>>

\* __init__, lines 39-45
Construct ==
  /\ pc = "new"
  /\ LET r == IF wordlist.given THEN LoadWords(EmptyGraph, wordlist.words)
              ELSE [exc |-> "none", graph |-> EmptyGraph]
     IN /\ word_graph' = r.graph
        /\ error' = r.exc
        /\ pc' = IF r.exc = "none" THEN "ready" ELSE "raised"
  /\ UNCHANGED <<wordlist, max_chain, added, nadds, puzzle, current_words,
                 current_edge, node, results, current_list,
                 in_progress_lists, complete_list, puzzle_solutions, ret>>

NextCtor ==
  \/ Construct
  \/ Next

SpecCtor == InitCtor /\ [][NextCtor]_vars

(* ---------------- direct calls of LetterNode.search ---------------- *)

RECURSIVE Nodes(_)
\* every node of the trie below and including n
Nodes(n) == {n} \cup UNION {Nodes(n.nodes[l]) : l \in DOMAIN n.nodes}

\* a call of LetterNode.search on node n with forbidden edge e
Probe(p, n, e) ==
  /\ pc = "ready"
  /\ puzzle' = p
  /\ node' = n
  /\ current_edge' = e
  /\ results' = NodeSearch(n, p, e)
  /\ pc' = "probed"
  /\ UNCHANGED <<wordlist, word_graph, max_chain, added, nadds, error, current_words,
                 current_list, in_progress_lists, complete_list,
                 puzzle_solutions, ret>>

InitNode == Init /\ max_chain = Unbounded

NextNode ==
  \/ \E w \in WordPool : nadds < MaxProbeAdds /\ Add(w)
  \/ \E p \in Puzzles : \E n \in Nodes(word_graph) :
       \E e \in Range(p) \cup {None} : Probe(p, n, e)

SpecNode == InitNode /\ [][NextNode]_vars

(* ---------------- properties ---------------- *)

\* the letters of the words of a chain
LettersOf(chain) == UNION {Range(chain[i]) : i \in 1..Len(chain)}

\* every letter of every edge of p occurs in some word of the chain
Covers(p, chain) ==
  \A e \in 1..Len(p) : \A j \in 1..Len(p[e]) : p[e][j] \in LettersOf(chain)

\* some letter of p lies on two edges
SharedLetter(p) ==
  \E e1, e2 \in 1..Len(p) : e1 # e2 /\ Range(p[e1]) \cap Range(p[e2]) # {}

NoDuplicate(seq) == \A i, j \in 1..Len(seq) : i # j => seq[i] # seq[j]

\* the chains held by the search: the frontier, the entry in hand and the
\* recorded solutions
FrontierChains ==
  {in_progress_lists[i][1] : i \in 1..Len(in_progress_lists)}
    \cup (IF pc = "loop" THEN {current_list[1]} ELSE {})

RecordedChains == {complete_list[i][1] : i \in 1..Len(complete_list)}

\* C1: every chain that search returns contains every letter of every edge
\* of the puzzle in one of its words, also when a letter lies on two edges.
C1_SolutionsCover ==
  /\ \A c \in RecordedChains : Covers(puzzle, c)
  /\ pc = "done" => \A i \in 1..Len(ret) : Covers(puzzle, ret[i])

C1_Witness == pc = "done" /\ Len(ret) > 0 /\ SharedLetter(puzzle)

\* C4: no chain on the frontier, no recorded solution and no returned chain
\* holds a word twice.
C4_NoRepeatedWord ==
  /\ \A c \in FrontierChains \cup RecordedChains : NoDuplicate(c)
  /\ pc = "done" => \A i \in 1..Len(ret) : NoDuplicate(ret[i])

\* the last pass met a word that its chain already held
C4_Witness ==
  /\ pc \in {"loop", "done"}
  /\ Len(current_words) > 1
  /\ \E k \in 1..Len(results) : results[k][1] \in Range(current_words)

\* C5: with max_chain = N >= 1 no chain of N or more words is on the
\* frontier, no returned chain has more than N words, and with N = 1 every
\* returned chain is one word that covers the puzzle.
C5_MaxChain ==
  max_chain >= 1 =>
    /\ \A c \in FrontierChains : Len(c) < max_chain
    /\ pc = "done" =>
         \A i \in 1..Len(ret) :
           /\ Len(ret[i]) <= max_chain
           /\ max_chain = 1 => Len(ret[i]) = 1 /\ Covers(puzzle, <<ret[i][1]>>)

\* a chain as long as the bound allows is recorded, and the last pass
\* dropped a chain that is not covering because of the bound
C5_Witness ==
  /\ pc \in {"loop", "done"}
  /\ max_chain >= 1
  /\ \E c \in RecordedChains : Len(c) = max_chain
  /\ \E k \in 1..Len(results) :
       /\ results[k][1] \notin Range(current_words)
       /\ ~Covers(puzzle, Append(current_words, results[k][1]))
       /\ Len(current_words) + 1 >= max_chain

RECURSIVE LetterCount(_)
\* the letters of a chain, counted over its words
LetterCount(chain) ==
  IF chain = <<>> THEN 0 ELSE Len(Head(chain)) + LetterCount(Tail(chain))

\* (words, letters) of a is not greater than that of b
RankLeq(a, b) ==
  \/ Len(a) < Len(b)
  \/ Len(a) = Len(b) /\ LetterCount(a) <= LetterCount(b)

\* the position at which the search recorded a chain
RecordedAt(chain) == CHOOSE k \in 1..Len(complete_list) : complete_list[k][1] = chain

\* C6: the returned list holds the recorded solutions in ascending order of
\* (number of words, total number of letters); solutions of equal rank keep
\* the order in which they were recorded.
C6_Sorted ==
  pc = "done" =>
    /\ Len(ret) = Len(complete_list)
    /\ Range(ret) = RecordedChains
    /\ \A i, j \in 1..Len(ret) :
         i < j =>
           /\ RankLeq(ret[i], ret[j])
           /\ RankLeq(ret[j], ret[i]) => RecordedAt(ret[i]) < RecordedAt(ret[j])

\* the sort moved a solution, and two solutions of equal rank were returned
C6_Witness ==
  /\ pc = "done"
  /\ \E i \in 1..Len(ret) : ret[i] # complete_list[i][1]
  /\ \E i, j \in 1..Len(ret) :
       i < j /\ RankLeq(ret[i], ret[j]) /\ RankLeq(ret[j], ret[i])

\* C7: the returned list never holds the same word sequence twice, also
\* when a chain is reached along several edge paths.
C7_NoDuplicateSolution ==
  /\ NoDuplicate([i \in 1..Len(complete_list) |-> complete_list[i][1]])
  /\ pc = "done" => NoDuplicate(ret)

\* the last pass met a returned chain twice: with two ending edges, and
\* with the same ending edge
C7_Witness ==
  /\ pc = "done"
  /\ \E i, j \in 1..Len(results) :
       /\ i # j
       /\ results[i][1] = results[j][1]
       /\ results[i][2] # results[j][2]
       /\ Append(current_words, results[i][1]) \in Range(ret)
  /\ \E i, j \in 1..Len(results) :
       /\ i # j
       /\ results[i] = results[j]
       /\ Append(current_words, results[i][1]) \in Range(ret)


RECURSIVE EndEdges(_, _, _)
\* the edges on which the last letter of placed may lie when the letters
\* are put on edges of p one after another, each on an edge that holds it
\* and differs from the edge before, the first on an edge other than e;
\* empty exactly when no such assignment of edges exists
EndEdges(placed, p, e) ==
  IF placed = <<>> THEN {e}
  ELSE LET before == EndEdges(SubSeq(placed, 1, Len(placed) - 1), p, e)
       IN {x \in Range(p) : /\ placed[Len(placed)] \in Range(x)
                            /\ \E y \in before : y # x}

\* every letter of w lies on the edge x of p and on no other edge
OnOneEdge(w, p) ==
  \E x \in Range(p) : \A i \in 1..Len(w) :
    \A y \in Range(p) : w[i] \in Range(y) <=> y = x

\* C3: every (word, ending-edge) pair that LetterNode.search returns for a
\* node and a forbidden edge begins with the node's letter and has an
\* assignment of edges to the letters after it: each letter on its edge, no
\* two consecutive letters on one edge, the first not on the forbidden
\* edge, the last on the ending-edge. A word of two or more letters that
\* all lie on one edge is not returned from the root.
C3_WordsTraceable ==
  \A k \in 1..Len(results) :
    LET w == results[k][1]
        start == Len(node.letter)
    IN /\ Len(w) >= start
       /\ SubSeq(w, 1, start) = node.letter
       /\ results[k][2] \in EndEdges(SubSeq(w, start + 1, Len(w)), puzzle,
                                     current_edge)
       /\ (node = word_graph /\ Len(w) >= 2) => ~OnOneEdge(w, puzzle)

\* a call with a forbidden edge returned a word of two letters or more
\* after the node's own, on a trie that holds abc
C3_Witness ==
  /\ pc = "probed"
  /\ current_edge # None
  /\ <<"a", "b", "c">> \in added
  /\ \E k \in 1..Len(results) : Len(results[k][1]) >= Len(node.letter) + 2

RECURSIVE Arrangements(_)
\* the sequences of distinct elements of S
Arrangements(S) ==
  {<<>>} \cup UNION {{<<w>> \o t : t \in Arrangements(S \ {w})} : w \in S}

\* a chain as the claim C2 describes it
ValidChain(c, dict, p, n) ==
  /\ Len(c) >= 1
  /\ \A i \in 1..Len(c) :
       c[i] \in dict /\ Len(c[i]) > 0 /\ EndEdges(c[i], p, None) # {}
  /\ \A i \in 2..Len(c) : c[i][1] = c[i - 1][Len(c[i - 1])]
  /\ NoDuplicate(c)
  /\ Covers(p, c)
  /\ n = Unbounded \/ Len(c) <= n
  /\ \A k \in 1..(Len(c) - 1) : ~Covers(p, SubSeq(c, 1, k))

\* C2: for a dictionary of one or more non-empty words and max_chain = N >= 1
\* or unbounded, search returns, and returns exactly the chains of distinct
\* dictionary words that are each traceable, linked last letter to first
\* letter, covering, of at most N words and with no covering proper prefix.
C2_ExactChains ==
  (pc \in {"done", "raised"} /\ added # {} /\ <<>> \notin added
     /\ max_chain # 0) =>
    /\ pc = "done"
    /\ Range(ret) =
         {c \in Arrangements(added) : ValidChain(c, added, puzzle, max_chain)}

\* the last pass took up a chain whose last word ends in a letter that
\* begins no dictionary word
DeadEnd ==
  /\ Len(current_words) > 0
  /\ LET last == current_words[Len(current_words)]
     IN Len(last) > 0 /\ IsNone(get(word_graph, last[Len(last)]))

\* C8: a chain whose last word ends in a letter that begins no dictionary
\* word has no completions; taking it up raises no error.
C8_DeadEndNoError == DeadEnd => pc # "raised"

\* C9: add of the zero-length word leaves the trie as it is: the root's
\* terminal flag stays false, the root is no word boundary and no search
\* yields the empty string as a word.
C9_EmptyWordIgnored ==
  <<>> \in added =>
    /\ ~word_graph.terminal
    /\ ~word(word_graph)
    /\ \A k \in 1..Len(results) : results[k][1] # <<>>

RECURSIVE Spelled(_)
\* the strings spelled by the paths from n to a node whose word() is true
Spelled(n) ==
  (IF word(n) THEN {<<>>} ELSE {})
    \cup UNION {{<<l>> \o t : t \in Spelled(n.nodes[l])} : l \in DOMAIN n.nodes}

RECURSIVE Walk(_, _)
\* the node reached from n by one get per letter of w, None when a get
\* finds nothing
Walk(n, w) ==
  IF w = <<>> THEN n
  ELSE IF IsNone(get(n, Head(w))) THEN None
  ELSE Walk(get(n, Head(w)), Tail(w))

\* after one or more add calls with non-empty words the word boundaries
\* spell exactly the added words
TrieHoldsAdded ==
  (added # {} /\ <<>> \notin added) =>
    /\ Spelled(word_graph) = added
    /\ \A w \in added :
         ~IsNone(Walk(word_graph, w)) /\ word(Walk(word_graph, w))

\* an add of a word that is already present leaves the trie as it is
ReAddKeepsTrie ==
  (nadds' # nadds /\ added' = added /\ <<>> \notin added) =>
    word_graph' = word_graph

\* C10: after any sequence of one or more add calls with non-empty words
\* the word boundaries of the trie spell exactly the words added so far,
\* each reached by len(W) get steps, and adding a word again changes
\* nothing.
C10_TrieWords == []TrieHoldsAdded /\ [][ReAddKeepsTrie]_vars

\* a word and a longer word that builds on it are present and one of them
\* was added twice
C10_Witness ==
  /\ {<<"a", "d">>, <<"a", "d", "g">>} \subseteq added
  /\ <<>> \notin added
  /\ nadds > Cardinality(added)

\* the chain without its last word
ButLast(c) == SubSeq(c, 1, Len(c) - 1)

\* no chain that c extends by one word or more covers the puzzle
LeafOfSearch(p, c) == \A k \in 1..(Len(c) - 1) : ~Covers(p, SubSeq(c, 1, k))

\* C11: a covering chain is a leaf of the search: no chain on the frontier
\* covers the puzzle, a recorded or returned solution of two or more words
\* does not cover without its last word, and no returned solution extends
\* a covering chain.
C11_SolutionIsLeaf ==
  /\ \A c \in FrontierChains : ~Covers(puzzle, c)
  /\ \A c \in RecordedChains :
       /\ Len(c) >= 2 => ~Covers(puzzle, ButLast(c))
       /\ LeafOfSearch(puzzle, c)
  /\ pc = "done" =>
       \A i \in 1..Len(ret) :
         /\ Len(ret[i]) >= 2 => ~Covers(puzzle, ButLast(ret[i]))
         /\ LeafOfSearch(puzzle, ret[i])
         /\ \A j \in 1..Len(ret) :
              (i # j /\ Len(ret[j]) < Len(ret[i])) =>
                SubSeq(ret[i], 1, Len(ret[j])) # ret[j]

\* search returned a solution of one word and a solution of two words or
\* more that starts with a different word
C11_Witness ==
  /\ pc = "done"
  /\ \E i, j \in 1..Len(ret) :
       Len(ret[i]) = 1 /\ Len(ret[j]) >= 2 /\ ret[j][1] # ret[i][1]

\* C12: for a dictionary of non-empty words no frontier entry is longer
\* than the number of distinct dictionary words, and the loop is left with
\* the frontier empty, search returning.
C12_LoopExitsEmpty ==
  (added # {} /\ <<>> \notin added) =>
    /\ \A c \in FrontierChains : Len(c) <= Cardinality(added)
    /\ pc \in {"done", "raised"} => (pc = "done" /\ in_progress_lists = <<>>)

RECURSIVE AddEach(_, _)
\* the trie after add(w) for each word w of ws in order
AddEach(g, ws) ==
  IF ws = <<>> THEN g ELSE AddEach(AddWord(g, Head(ws)), Tail(ws))

\* C13: the constructor completes without error and leaves the trie that
\* an empty solver has after add was called once for each word of the
\* wordlist in order.
C13_ConstructorAddsWords ==
  [][pc = "new" =>
       /\ pc' = "ready"
       /\ error' = "none"
       /\ word_graph' = AddEach(EmptyGraph, wordlist.words)]_vars
====
